---- MODULE Spec2Model ----
(***************************************************************************)
(* Model of the lipid mass engine: src/api/molecules_parser.py and         *)
(* src/api/isotopic_corrections.py.                                        *)
(*                                                                         *)
(* Every function of the module is a pure function of its arguments, so    *)
(* the state is one call: the function called (fn), its arguments (args),  *)
(* the position of the call (pc) and what it gave back (ret).  Init draws  *)
(* the arguments, the Call_ action of the function is the whole body of    *)
(* the function.                                                           *)
(*                                                                         *)
(* Representation.                                                         *)
(*  - An argument that may be Python's None is a sequence: << >> is None   *)
(*    and << v >> is the value v.                                          *)
(*  - A mass or a tolerance is a fixed-point number, an integer count of   *)
(*    thousandths (1.008 is 1008), so arithmetic is exact.                 *)
(*  - A string is a sequence of one-character strings.                     *)
(*  - A call ends in Return(v) or in Raise(e), e the exception class.      *)
(***************************************************************************)
EXTENDS Integers, Sequences, FiniteSets, TLC

VARIABLES fn, args, pc, ret

vars == << fn, args, pc, ret >>

(* ------------------------------ values -------------------------------- *)

None == << >>

Some(v) == << v >>

Val(o) == o[1]

\* thousandths per unit of the fixed-point masses
Milli == 10 ^ 3

Return(v) == [kind |-> "return", value |-> v, exc |-> ""]

Raise(e) == [kind |-> "raise", value |-> << >>, exc |-> e]

NoRet == [kind |-> "none", value |-> << >>, exc |-> ""]

Abs(x) == IF x < 0 THEN -x ELSE x

Max(x, y) == IF x < y THEN y ELSE x

(* ------------------------ bounds of the inputs ------------------------ *)

\* rows of a reference table
MaxRows == 2

\* characters of a formula string
MaxFormulaLen == 4

\* total carbons of a composed lipid name
MaxCarbons == 12

\* total double bonds of a composed lipid name
MaxDoubleBonds == 2

\* carbons of one chain of a two-chain lipid name
MaxChainCarbons == 18

\* double bonds of one chain of a two-chain lipid name
MaxChainDoubleBonds == 1

\* atoms of a molecule whose isotope distribution is asked for
MaxAtoms == 4

(* ---------------------- get_name_for_mass_pair ------------------------ *)

\* numpy's default relative tolerance rtol = 1e-05, as its inverse
RtolInv == 100000

np_isclose_signslip(a, b, atol) ==
    /\ b # None
    /\ Abs(a - Val(b)) <= (Abs(Val(b)) \div RtolInv) - atol

\* np.isclose(a, b, atol=atol) elementwise: |a - b| <= atol + rtol * |b|,
\* b the second argument.  |a - b| - atol is a whole number of thousandths,
\* so it is at most rtol * |b| exactly when it is at most the floor of it.
\* A None broadcast by pd.Series is NaN: never close.
np_isclose(a, b, atol) ==
    /\ b # None
    /\ Abs(a - Val(b)) <= atol + (Abs(Val(b)) \div RtolInv)

missing_parameters_nofragment(precursor, fragment, mass_name_list) ==
    precursor = None \/ mass_name_list = None

\* line 38: precursor is None or fragment is None or mass_name_list is None
missing_parameters(precursor, fragment, mass_name_list) ==
    precursor = None \/ fragment = None \/ mass_name_list = None

\* line 40: the columns the code looks for in list(mass_name_list)
missing_columns(columns) ==
    \/ "precursor" \notin columns
    \/ "fragment" \notin columns
    \/ "lipid_name" \notin columns

RECURSIVE boolean_index(_, _, _)
\* mass_name_list[pair_matches]: the rows whose mask is True, in table order
boolean_index(rows, mask, i) ==
    IF i > Len(rows) THEN << >>
    ELSE (IF mask[i] THEN << rows[i] >> ELSE << >>)
             \o boolean_index(rows, mask, i + 1)

get_name_for_mass_pair(precursor, fragment, mass_name_list, pm_tolerance, fm_tolerance, atol) ==
    LET fm == IF fm_tolerance = None THEN pm_tolerance ELSE Val(fm_tolerance)
    IN  IF missing_parameters(precursor, fragment, mass_name_list)
        THEN Raise("ValueError")
        ELSE LET df == Val(mass_name_list)
                 n == Len(df.rows)
             IN  IF missing_columns(df.columns) THEN Raise("ValueError")
                 ELSE IF atol
                 THEN LET precursor_matches ==
                              [i \in 1..n |->
                                  np_isclose(df.rows[i].precursor, precursor, pm_tolerance)]
                          fragment_matches ==
                              [i \in 1..n |->
                                  np_isclose(df.rows[i].fragment, fragment, fm)]
                          pair_matches ==
                              [i \in 1..n |->
                                  precursor_matches[i] /\ fragment_matches[i]]
                      IN  Return(boolean_index(df.rows, pair_matches, 1))
                 ELSE LET precursor_matches ==
                              [i \in 1..n |->
                                  np_isclose(df.rows[i].precursor, precursor, pm_tolerance)]
                          fragment_matches ==
                              [i \in 1..n |->
                                  np_isclose(df.rows[i].fragment, fragment, fm)]
                          pair_matches ==
                              [i \in 1..n |->
                                  precursor_matches[i] /\ fragment_matches[i]]
                      IN  Return(boolean_index(df.rows, pair_matches, 1))

(* inputs of get_name_for_mass_pair *)

PrecursorMasses == {600000, 800000, 800005, 800305}

FragmentMasses == {200000, 200002, 200400}

Tolerances == {0, 300, 400}

RowNames == << "TAG", "DAG", "PC", "PE" >>

\* the tables of n rows: row i has index label i (a freshly loaded table has
\* the default index 0..n-1, which the boolean mask is aligned with)
RowsOfLen(n) ==
    { [i \in 1..n |-> [idx |-> i, precursor |-> m[i][1], fragment |-> m[i][2],
                        name |-> RowNames[i]]] :
        m \in [1..n -> PrecursorMasses \X FragmentMasses] }

ColumnSets ==
    { {"precursor", "fragment", "name"},
      {"precursor", "fragment", "lipid_name"} }

Tables ==
    { [columns |-> c, rows |-> r] :
        c \in ColumnSets, r \in UNION { RowsOfLen(n) : n \in 0..MaxRows } }
    \cup { [columns |-> {"precursor", "lipid_name"}, rows |-> << >>] }

MatchArgs ==
    [precursor : {None, Some(800000)},
     fragment : {None, Some(200000)},
     mass_name_list : {None} \cup { Some(t) : t \in Tables },
     pm_tolerance : Tolerances,
     fm_tolerance : {None} \cup { Some(t) : t \in Tolerances },
     atol : BOOLEAN]

InitMatch ==
    /\ fn = "get_name_for_mass_pair"
    /\ args \in MatchArgs
    /\ pc = "call"
    /\ ret = NoRet

Call_get_name_for_mass_pair ==
    /\ fn = "get_name_for_mass_pair"
    /\ pc = "call"
    /\ ret' = get_name_for_mass_pair(args.precursor, args.fragment,
                                     args.mass_name_list, args.pm_tolerance,
                                     args.fm_tolerance, args.atol)
    /\ pc' = "done"
    /\ UNCHANGED << fn, args >>

NextMatch == Call_get_name_for_mass_pair

SpecMatch == InitMatch /\ [][NextMatch]_vars

(* ------------------- claims on get_name_for_mass_pair ----------------- *)

Done == pc = "done"

MatchReturned ==
    /\ fn = "get_name_for_mass_pair"
    /\ Done
    /\ ret.kind = "return"

\* the fragment tolerance a call uses: the precursor tolerance when unset
EffectiveFm(pm_tolerance, fm_tolerance) ==
    IF fm_tolerance = None THEN pm_tolerance ELSE Val(fm_tolerance)

WithinAbsolute(observed, reference, tolerance) ==
    Abs(observed - reference) <= tolerance

WithinRelative(observed, reference, tolerance) ==
    Milli * Abs(observed - reference)
        <= tolerance * Max(Abs(observed), Abs(reference))

\* C1: in absolute mode the call returns exactly the reference entries with
\* |precursor - e.precursor| <= pm_tolerance and |fragment - e.fragment| <=
\* fm_tolerance, each once and in table order.
C1_AbsoluteExactSubsequence ==
    (MatchReturned /\ args.atol) =>
        ret.value =
            SelectSeq(Val(args.mass_name_list).rows,
                      LAMBDA e :
                          /\ WithinAbsolute(Val(args.precursor), e.precursor,
                                            args.pm_tolerance)
                          /\ WithinAbsolute(Val(args.fragment), e.fragment,
                                            EffectiveFm(args.pm_tolerance,
                                                        args.fm_tolerance)))

\* C2: in relative mode (atol = False) the call returns the entries with
\* |observed - reference| <= tolerance * max(|observed|, |reference|) on both
\* masses.
C2_RelativeProportional ==
    (MatchReturned /\ ~args.atol) =>
        ret.value =
            SelectSeq(Val(args.mass_name_list).rows,
                      LAMBDA e :
                          /\ WithinRelative(Val(args.precursor), e.precursor,
                                            args.pm_tolerance)
                          /\ WithinRelative(Val(args.fragment), e.fragment,
                                            EffectiveFm(args.pm_tolerance,
                                                        args.fm_tolerance)))

\* C3: with both tolerances zero the call returns exactly the entries whose
\* precursor and fragment masses equal the observed ones.
C3_ZeroToleranceIsEquality ==
    (/\ MatchReturned
     /\ args.pm_tolerance = 0
     /\ EffectiveFm(args.pm_tolerance, args.fm_tolerance) = 0) =>
        ret.value =
            SelectSeq(Val(args.mass_name_list).rows,
                      LAMBDA e :
                          /\ e.precursor = Val(args.precursor)
                          /\ e.fragment = Val(args.fragment))

\* the same call with the tolerances pm2 and fm2
Retuned(pm2, fm2) ==
    get_name_for_mass_pair(args.precursor, args.fragment, args.mass_name_list,
                           pm2, fm2, args.atol)

Wider(pm2, fm2) ==
    /\ args.pm_tolerance <= pm2
    /\ EffectiveFm(args.pm_tolerance, args.fm_tolerance) <= EffectiveFm(pm2, fm2)
    /\ \/ args.pm_tolerance < pm2
       \/ EffectiveFm(args.pm_tolerance, args.fm_tolerance) < EffectiveFm(pm2, fm2)

\* C4: monotonic in tolerance: every entry returned with the tolerances of
\* the call is returned by the same call with wider tolerances (same mode).
C4_MonotonicInTolerance ==
    MatchReturned =>
        \A pm2 \in Tolerances, fm2 \in {None} \cup { Some(t) : t \in Tolerances } :
            Wider(pm2, fm2) =>
                /\ Retuned(pm2, fm2).kind = "return"
                /\ \A i \in 1..Len(ret.value) :
                       \E j \in 1..Len(Retuned(pm2, fm2).value) :
                           Retuned(pm2, fm2).value[j] = ret.value[i]

\* a call that returns an entry, and that returns more with a wider tolerance
C4_Witness ==
    /\ MatchReturned
    /\ Len(ret.value) = 1
    /\ \E pm2 \in Tolerances :
           /\ args.pm_tolerance < pm2
           /\ Len(Retuned(pm2, args.fm_tolerance).value) = 2

\* C5: a table with the columns 'precursor', 'fragment' and 'name' passes the
\* column check: the call returns.
C5_DefaultColumnsAccepted ==
    (/\ fn = "get_name_for_mass_pair"
     /\ Done
     /\ args.precursor # None
     /\ args.fragment # None
     /\ args.mass_name_list # None
     /\ Val(args.mass_name_list).columns = {"precursor", "fragment", "name"}) =>
        ret.kind = "return"

\* C6: the call raises ValueError and returns nothing whenever the precursor,
\* the fragment or the reference table is unset.
C6_UnsetArgumentRaises ==
    (/\ fn = "get_name_for_mass_pair"
     /\ Done
     /\ \/ args.precursor = None
        \/ args.fragment = None
        \/ args.mass_name_list = None) =>
        ret = Raise("ValueError")

\* only the fragment is unset, the table is one the column check accepts
C6_Witness ==
    /\ fn = "get_name_for_mass_pair"
    /\ Done
    /\ args.precursor # None
    /\ args.fragment = None
    /\ args.mass_name_list # None
    /\ ~missing_columns(Val(args.mass_name_list).columns)
    /\ Len(Val(args.mass_name_list).rows) > 0
    /\ ret = Raise("ValueError")

(* ------------------------------ strings ------------------------------- *)

UpperChars ==
    {"A", "B", "C", "D", "E", "F", "G", "H", "I", "J", "K", "L", "M",
     "N", "O", "P", "Q", "R", "S", "T", "U", "V", "W", "X", "Y", "Z"}

LowerChars ==
    {"a", "b", "c", "d", "e", "f", "g", "h", "i", "j", "k", "l", "m",
     "n", "o", "p", "q", "r", "s", "t", "u", "v", "w", "x", "y", "z"}

DigitChars == {"0", "1", "2", "3", "4", "5", "6", "7", "8", "9"}

DigitValue ==
    ("0" :> 0) @@ ("1" :> 1) @@ ("2" :> 2) @@ ("3" :> 3) @@ ("4" :> 4) @@
    ("5" :> 5) @@ ("6" :> 6) @@ ("7" :> 7) @@ ("8" :> 8) @@ ("9" :> 9)

RECURSIVE RunEnd(_, _, _)
\* the first position from i on that is past the string or not in the class:
\* where a greedy [class]* that starts at i stops
RunEnd(s, i, class) ==
    IF i > Len(s) \/ s[i] \notin class THEN i ELSE RunEnd(s, i + 1, class)

RECURSIVE int(_)
\* int(text) of a string of decimal digits
int(text) ==
    IF Len(text) = 0 THEN 0
    ELSE 10 * int(SubSeq(text, 1, Len(text) - 1)) + DigitValue[text[Len(text)]]

(* ----------------------- get_mass_from_formula ------------------------ *)

RECURSIVE formula_findall_onedigit(_, _)
formula_findall_onedigit(formula, i) ==
    IF i > Len(formula) THEN << >>
    ELSE IF formula[i] \in UpperChars
         THEN LET j == RunEnd(formula, i + 1, LowerChars)
                  k == IF j <= Len(formula) /\ formula[j] \in DigitChars
                       THEN j + 1 ELSE j
              IN  << << SubSeq(formula, i, j - 1), SubSeq(formula, j, k - 1) >> >>
                      \o formula_findall_onedigit(formula, k)
         ELSE formula_findall_onedigit(formula, i + 1)

RECURSIVE formula_findall(_, _)
\* re.findall(r'([A-Z][a-z]*)(\d*)', formula) from position i: the matches
\* left to right, each a (symbol, digits) pair; a character no match starts
\* at is skipped
formula_findall(formula, i) ==
    IF i > Len(formula) THEN << >>
    ELSE IF formula[i] \in UpperChars
         THEN LET j == RunEnd(formula, i + 1, LowerChars)
                  k == RunEnd(formula, j, DigitChars)
              IN  << << SubSeq(formula, i, j - 1), SubSeq(formula, j, k - 1) >> >>
                      \o formula_findall(formula, k)
         ELSE formula_findall(formula, i + 1)

lookup_or_zero(data, symbol) ==
    IF symbol \in DOMAIN data THEN Return(data[symbol]) ELSE Return(0)

\* data[tup[0]]: KeyError when the symbol is no key of the table
lookup(data, symbol) ==
    IF symbol \in DOMAIN data THEN Return(data[symbol]) ELSE Raise("KeyError")

RECURSIVE formula_loop(_, _, _, _)
\* the for loop of lines 79-83 from token i on, mass_sum so far
formula_loop(tokens, i, data, mass_sum) ==
    IF i > Len(tokens) THEN Return(mass_sum)
    ELSE LET tup == tokens[i]
             m == lookup(data, tup[1])
         IN  IF m.kind = "raise" THEN m
             ELSE IF tup[2] # << >>
                  THEN formula_loop(tokens, i + 1, data,
                                    mass_sum + int(tup[2]) * m.value)
                  ELSE formula_loop(tokens, i + 1, data, mass_sum + m.value)

\* elements_mass_file stands for the JSON object of the file it names
get_mass_from_formula(formula, elements_mass_file) ==
    IF formula = None \/ elements_mass_file = None THEN Raise("ValueError")
    ELSE formula_loop(formula_findall(Val(formula), 1), 1,
                      Val(elements_mass_file), 0)

(* inputs of get_mass_from_formula *)

FormulaChars == {"C", "H", "X", "l", "0", "2", "4", "-"}

Strings(chars, maxlen) == UNION { [1..n -> chars] : n \in 0..maxlen }

ElementTables ==
    { (<<"C">> :> 12000) @@ (<<"H">> :> 1008) @@ (<<"C", "l">> :> 34969),
      (<<"C">> :> 12000) @@ (<<"H">> :> 1008),
      (<<"C">> :> 12000) @@ (<<"H">> :> 1000) }

FormulaArgs ==
    [formula : {None} \cup { Some(f) : f \in Strings(FormulaChars, MaxFormulaLen) },
     elements_mass_file : {None} \cup { Some(t) : t \in ElementTables }]

InitFormula ==
    /\ fn = "get_mass_from_formula"
    /\ args \in FormulaArgs
    /\ pc = "call"
    /\ ret = NoRet

Call_get_mass_from_formula ==
    /\ fn = "get_mass_from_formula"
    /\ pc = "call"
    /\ ret' = get_mass_from_formula(args.formula, args.elements_mass_file)
    /\ pc' = "done"
    /\ UNCHANGED << fn, args >>

NextFormula == Call_get_mass_from_formula

SpecFormula == InitFormula /\ [][NextFormula]_vars

(* -------------------- claims on get_mass_from_formula ----------------- *)

FormulaCalled ==
    /\ fn = "get_mass_from_formula"
    /\ Done
    /\ args.formula # None
    /\ args.elements_mass_file # None

\* the last position of the run of characters of the class that follows i
LastOfRun(s, i, class) ==
    CHOOSE j \in i..Len(s) :
        /\ \A k \in (i + 1)..j : s[k] \in class
        /\ j = Len(s) \/ s[j + 1] \notin class

\* the token that starts at the uppercase letter at i: its symbol is the
\* letter and the lowercase letters after it, its count digits follow
SymbolAt(s, i) == SubSeq(s, i, LastOfRun(s, i, LowerChars))

CountDigitsAt(s, i) ==
    SubSeq(s, LastOfRun(s, i, LowerChars) + 1,
           LastOfRun(s, LastOfRun(s, i, LowerChars), DigitChars))

RECURSIVE SumOver(_, _)
SumOver(S, f) ==
    IF S = {} THEN 0
    ELSE LET x == CHOOSE y \in S : TRUE
         IN  f[x] + SumOver(S \ {x}, f)

\* the number a string of decimal digits writes
Decimal(digits) ==
    SumOver(1..Len(digits),
            [k \in 1..Len(digits) |->
                DigitValue[digits[k]] * 10 ^ (Len(digits) - k)])

CountAt(s, i) ==
    IF CountDigitsAt(s, i) = << >> THEN 1 ELSE Decimal(CountDigitsAt(s, i))

TokenStarts(s) == { i \in 1..Len(s) : s[i] \in UpperChars }

\* a formula made only of <ElementSymbol><optional count> tokens, one at least
OnlyTokens(s) ==
    /\ Len(s) >= 1
    /\ s[1] \in UpperChars
    /\ \A i \in 1..Len(s) : s[i] \in UpperChars \cup LowerChars \cup DigitChars
    /\ \A i \in 2..Len(s) : s[i] \in LowerChars => s[i - 1] \notin DigitChars

\* C7: for a formula made only of tokens whose symbols are all in the mass
\* table the call returns the sum over the tokens of count * mass[symbol], a
\* token without a count counting once.
C7_FormulaMassIsTokenSum ==
    (/\ FormulaCalled
     /\ OnlyTokens(Val(args.formula))
     /\ \A i \in TokenStarts(Val(args.formula)) :
            SymbolAt(Val(args.formula), i) \in DOMAIN Val(args.elements_mass_file)) =>
        ret = Return(SumOver(TokenStarts(Val(args.formula)),
                             [i \in TokenStarts(Val(args.formula)) |->
                                 CountAt(Val(args.formula), i)
                                     * Val(args.elements_mass_file)[SymbolAt(Val(args.formula), i)]]))

\* 'C2H4' with C = 12 and H = 1 gives 28
C7_Witness ==
    /\ FormulaCalled
    /\ Val(args.formula) = << "C", "2", "H", "4" >>
    /\ Val(args.elements_mass_file)[<<"H">>] = 1000
    /\ ret = Return(28000)

\* C8: the call raises, and returns no mass, for a formula that holds no
\* token or a character outside the symbol/digit grammar.
C8_MalformedFormulaRaises ==
    (FormulaCalled /\ ~OnlyTokens(Val(args.formula))) => ret.kind = "raise"

\* C9: the call raises a lookup error whenever a parsed element symbol is no
\* key of the mass table, wherever its token stands.
C9_UnknownSymbolRaises ==
    (/\ FormulaCalled
     /\ \E i \in TokenStarts(Val(args.formula)) :
            SymbolAt(Val(args.formula), i) \notin DOMAIN Val(args.elements_mass_file)) =>
        ret = Raise("KeyError")

\* the unknown symbol is the last token, after tokens the table knows
C9_Witness ==
    /\ FormulaCalled
    /\ Val(args.formula) = << "C", "2", "H", "X" >>
    /\ ret = Raise("KeyError")

(* ------------------ lipid names: compose and parse -------------------- *)

DigitChar == << "0", "1", "2", "3", "4", "5", "6", "7", "8", "9" >>

RECURSIVE str(_)
\* str(n), also what %s and %d write for an integer
str(n) ==
    IF n < 0 THEN << "-" >> \o str(-n)
    ELSE IF n < 10 THEN << DigitChar[n + 1] >>
    ELSE str(n \div 10) \o << DigitChar[(n % 10) + 1] >>

\* "%s|%s:%s|" % (group, ncarbons, ndouble_bonds), 0 double bonds when unset
get_name_from_carbons_double_bonds(group, ncarbons, ndouble_bonds) ==
    IF group = None \/ ncarbons = None THEN Raise("ValueError")
    ELSE IF ndouble_bonds = None
         THEN Return(Val(group) \o << "|" >> \o str(Val(ncarbons))
                         \o << ":" >> \o str(0) \o << "|" >>)
         ELSE Return(Val(group) \o << "|" >> \o str(Val(ncarbons))
                         \o << ":" >> \o str(Val(ndouble_bonds)) \o << "|" >>)

get_name_from_double_chains_indexslip(group, chain_1, chain_2) ==
    IF group = None THEN Raise("ValueError")
    ELSE Return(get_name_from_carbons_double_bonds(
                    group, Some(chain_1[1] + chain_2[1]),
                    Some(chain_1[2] + chain_2[1])).value
                \o << "(" >> \o str(chain_1[1]) \o << ":" >> \o str(chain_1[2])
                \o << "~" >> \o str(chain_2[1]) \o << ":" >> \o str(chain_2[2])
                \o << ")" >>)

\* the name of the totals followed by "(%d:%d~%d:%d)" of the two chains
get_name_from_double_chains(group, chain_1, chain_2) ==
    IF group = None THEN Raise("ValueError")
    ELSE Return(get_name_from_carbons_double_bonds(
                    group, Some(chain_1[1] + chain_2[1]),
                    Some(chain_1[2] + chain_2[2])).value
                \o << "(" >> \o str(chain_1[1]) \o << ":" >> \o str(chain_1[2])
                \o << "~" >> \o str(chain_2[1]) \o << ":" >> \o str(chain_2[2])
                \o << ")" >>)

\* \w
WordChars == UpperChars \cup LowerChars \cup DigitChars \cup {"_"}

\* \(\d:\d\,\d:\d\,\d:\d\) matches at i
triple_at(s, i) ==
    /\ i + 12 <= Len(s)
    /\ s[i] = "(" /\ s[i + 12] = ")"
    /\ \A k \in {i + 1, i + 3, i + 5, i + 7, i + 9, i + 11} : s[k] \in DigitChars
    /\ \A k \in {i + 2, i + 6, i + 10} : s[k] = ":"
    /\ \A k \in {i + 4, i + 8} : s[k] = ","

RECURSIVE name_findall(_, _)
\* re.findall(r'\w+|\d:\d|\(\d:\d\,\d:\d\,\d:\d\)', name) from position i.
\* The alternatives are tried in order, and a digit starts a \w+ match, so
\* the second alternative never gives a match.
name_findall(s, i) ==
    IF i > Len(s) THEN << >>
    ELSE IF s[i] \in WordChars
         THEN << SubSeq(s, i, RunEnd(s, i + 1, WordChars) - 1) >>
                  \o name_findall(s, RunEnd(s, i + 1, WordChars))
         ELSE IF triple_at(s, i)
              THEN << SubSeq(s, i, i + 12) >> \o name_findall(s, i + 13)
              ELSE name_findall(s, i + 1)

parse_lipid_name(name) ==
    IF name = None THEN Raise("ValueError")
    ELSE Return(name_findall(Val(name), 1))

(* ------------------------- get_mass_from_name ------------------------- *)

\* int(text) raises ValueError unless text is decimal digits (the names drawn
\* hold no '_', sign or blank, which int() also reads)
int_raises(text) == text = << >> \/ \E k \in 1..Len(text) : text[k] \notin DigitChars

\* int(x) of a float: the fraction is cut off, towards zero
int_of_float(x) ==
    IF x >= 0 THEN (x \div Milli) * Milli ELSE -(((-x) \div Milli) * Milli)

\* the expression of lines 125-127 raises: a missing list element
\* (IndexError), a missing key (KeyError) or a field int() cannot read
mass_expression_raises(parsed, elements_mass_dict, head_group_mass_dict) ==
    \/ Len(parsed) < 3
    \/ parsed[1] \notin DOMAIN head_group_mass_dict
    \/ << "C" >> \notin DOMAIN elements_mass_dict
    \/ << "H" >> \notin DOMAIN elements_mass_dict
    \/ int_raises(parsed[2])
    \/ int_raises(parsed[3])

\* parsed[0], parsed[1], parsed[2] of the code are parsed[1..3] here
get_mass_from_name(name, elements_mass_dict, head_group_mass_dict) ==
    IF name = None \/ elements_mass_dict = None \/ head_group_mass_dict = None
    THEN Raise("ValueError")
    ELSE LET parsed == parse_lipid_name(name).value
             elements == Val(elements_mass_dict)
             heads == Val(head_group_mass_dict)
         IN  IF mass_expression_raises(parsed, elements, heads)
             THEN Return(0)
             ELSE Return(heads[parsed[1]]
                         + elements[<< "C" >>] * int(parsed[2])
                         + (int(parsed[2]) * 2 + 1) * int_of_float(elements[<< "H" >>])
                         - (int(parsed[3]) * 2) * int_of_float(elements[<< "H" >>]))

(* inputs of get_mass_from_name *)

HeadGroups == { << "T", "A", "G" >>, << "P", "C" >>, << "F", "F", "A" >> }

HeadGroupTables ==
    { (<< "T", "A", "G" >> :> 173009) @@ (<< "P", "C" >> :> 224105) }

ComposedNames ==
    { get_name_from_carbons_double_bonds(Some(g), Some(c), Some(d)).value :
        g \in HeadGroups, c \in 0..MaxCarbons, d \in 0..MaxDoubleBonds }

MalformedNames ==
    { << >>,
      << "T", "A", "G" >>,
      << "T", "A", "G", "|", "x", ":", "1", "|" >>,
      << "T", "A", "G", "|", "8", ":", "|" >> }

NameArgs ==
    [name : {None} \cup { Some(n) : n \in ComposedNames \cup MalformedNames },
     elements_mass_dict :
         {None} \cup { Some(t) : t \in ElementTables \cup { << "C" >> :> 12000 } },
     head_group_mass_dict : {None} \cup { Some(t) : t \in HeadGroupTables }]

InitName ==
    /\ fn = "get_mass_from_name"
    /\ args \in NameArgs
    /\ pc = "call"
    /\ ret = NoRet

Call_get_mass_from_name ==
    /\ fn = "get_mass_from_name"
    /\ pc = "call"
    /\ ret' = get_mass_from_name(args.name, args.elements_mass_dict,
                                 args.head_group_mass_dict)
    /\ pc' = "done"
    /\ UNCHANGED << fn, args >>

NextName == Call_get_mass_from_name

SpecName == InitName /\ [][NextName]_vars

(* ---------------------- claims on get_mass_from_name ------------------ *)

NameCalled ==
    /\ fn = "get_mass_from_name"
    /\ Done
    /\ args.name # None
    /\ args.elements_mass_dict # None
    /\ args.head_group_mass_dict # None

\* C10: for a name with a head group of the table, c total carbons and d
\* total double bonds, the call returns head_group_mass + c * C_mass +
\* (2c + 1) * H_mass - 2d * H_mass, H_mass the table's hydrogen mass in full.
C10_NameMassFormula ==
    NameCalled =>
        \A g \in HeadGroups, c \in 0..MaxCarbons, d \in 0..MaxDoubleBonds :
            (/\ Val(args.name) =
                    get_name_from_carbons_double_bonds(Some(g), Some(c), Some(d)).value
             /\ g \in DOMAIN Val(args.head_group_mass_dict)
             /\ << "C" >> \in DOMAIN Val(args.elements_mass_dict)
             /\ << "H" >> \in DOMAIN Val(args.elements_mass_dict)) =>
                ret = Return(Val(args.head_group_mass_dict)[g]
                             + c * Val(args.elements_mass_dict)[<< "C" >>]
                             + (2 * c + 1) * Val(args.elements_mass_dict)[<< "H" >>]
                             - 2 * d * Val(args.elements_mass_dict)[<< "H" >>])

\* the fields parse_lipid_name reads from the name of the call
NameFields == parse_lipid_name(args.name).value

\* C11: the call raises, and returns no number, when the head group of the
\* name or the symbol C or H is no key of its table (lookup error), or when
\* the carbon or double-bond field of the name is missing or not a number
\* (parse error).
C11_BadNameOrTableRaises ==
    (/\ NameCalled
     /\ \/ Len(NameFields) >= 1
           /\ NameFields[1] \notin DOMAIN Val(args.head_group_mass_dict)
        \/ << "C" >> \notin DOMAIN Val(args.elements_mass_dict)
        \/ << "H" >> \notin DOMAIN Val(args.elements_mass_dict)
        \/ Len(NameFields) < 3
        \/ \E k \in 2..3 : \E j \in 1..Len(NameFields[k]) :
               NameFields[k][j] \notin DigitChars) =>
        ret.kind = "raise"

(* ------------- compose from two chains, then parse the name ----------- *)

ChainGroups ==
    { << "T", "A", "G" >>, << "P", "C" >>, << "L", "P", "C" >>,
      << "P", "E", "-", "O" >> }

Chains == (0..MaxChainCarbons) \X (0..MaxChainDoubleBonds)

ComposeArgs ==
    [group : {None} \cup { Some(g) : g \in ChainGroups },
     chain_1 : Chains,
     chain_2 : Chains]

InitRoundTrip ==
    /\ fn = "get_name_from_double_chains"
    /\ args \in ComposeArgs
    /\ pc = "call"
    /\ ret = NoRet

Call_get_name_from_double_chains ==
    /\ fn = "get_name_from_double_chains"
    /\ pc = "call"
    /\ ret' = get_name_from_double_chains(args.group, args.chain_1, args.chain_2)
    /\ pc' = "done"
    /\ UNCHANGED << fn, args >>

\* the caller hands the name it was given to parse_lipid_name; composed_from
\* keeps the arguments the name was built from
Call_parse_lipid_name ==
    /\ fn = "get_name_from_double_chains"
    /\ pc = "done"
    /\ ret.kind = "return"
    /\ fn' = "parse_lipid_name"
    /\ args' = [name |-> Some(ret.value), composed_from |-> args]
    /\ ret' = parse_lipid_name(Some(ret.value))
    /\ pc' = "done"

NextRoundTrip == Call_get_name_from_double_chains \/ Call_parse_lipid_name

SpecRoundTrip == InitRoundTrip /\ [][NextRoundTrip]_vars

(* ------------------------ claims on the round trip -------------------- *)

\* a string of decimal digits that writes n, without leading zeros
Writes(digits, n) ==
    /\ Len(digits) >= 1
    /\ \A k \in 1..Len(digits) : digits[k] \in DigitChars
    /\ Len(digits) > 1 => digits[1] # "0"
    /\ Decimal(digits) = n

\* the name is 'GROUP|c1+c2:d1+d2|(c1:d1~c2:d2)' and its parse gives the
\* group, then c1 + c2, then d1 + d2
RoundTripHolds ==
    LET from == args.composed_from
        g == Val(from.group)
        p == ret.value
    IN  /\ ret.kind = "return"
        /\ Len(p) = 7
        /\ p[1] = g
        /\ Writes(p[2], from.chain_1[1] + from.chain_2[1])
        /\ Writes(p[3], from.chain_1[2] + from.chain_2[2])
        /\ Writes(p[4], from.chain_1[1])
        /\ Writes(p[5], from.chain_1[2])
        /\ Writes(p[6], from.chain_2[1])
        /\ Writes(p[7], from.chain_2[2])
        /\ Val(args.name) =
               g \o << "|" >> \o p[2] \o << ":" >> \o p[3] \o << "|", "(" >>
                 \o p[4] \o << ":" >> \o p[5] \o << "~" >>
                 \o p[6] \o << ":" >> \o p[7] \o << ")" >>

Parsed == fn = "parse_lipid_name" /\ Done

\* C12 as stated: round trip for every head group and every two chains of
\* non-negative integers.
C12_RoundTripEveryGroup == Parsed => RoundTripHolds

\* C12 as amended: round trip for every head group that is a non-empty string
\* of letters, digits and underscores, and every two chains of non-negative
\* integers.
C12_RoundTripWordGroup ==
    (/\ Parsed
     /\ Val(args.composed_from.group) # << >>
     /\ \A k \in 1..Len(Val(args.composed_from.group)) :
            Val(args.composed_from.group)[k] \in WordChars) =>
        RoundTripHolds

\* TAG with (16, 0) and (18, 1): 'TAG|34:1|(16:0~18:1)', totals 34 and 1
C12_Witness ==
    /\ Parsed
    /\ args.composed_from.group = Some(<< "T", "A", "G" >>)
    /\ args.composed_from.chain_1 = << 16, 0 >>
    /\ args.composed_from.chain_2 = << 18, 1 >>
    /\ Val(args.name) =
           << "T", "A", "G", "|", "3", "4", ":", "1", "|", "(",
              "1", "6", ":", "0", "~", "1", "8", ":", "1", ")" >>
    /\ ret.value[2] = << "3", "4" >>
    /\ ret.value[3] = << "1" >>

(* ---------------- get_isotope_distribution_from_natoms ---------------- *)
(* src/api/isotopic_corrections.py.  An abundance is a whole number of     *)
(* tenths, so a probability of n atoms is an exact fraction num / den with *)
(* den = Tenths ^ n; a NaN is the value with nan set.                      *)

Tenths == 10 ^ 1

RECURSIVE Pow(_, _)
\* x ** e for e >= 0, with 0 ** 0 = 1
Pow(x, e) == IF e = 0 THEN 1 ELSE x * Pow(x, e - 1)

RECURSIVE comb(_, _)
\* the binomial coefficient, by Pascal's rule
comb(n, k) ==
    IF k < 0 \/ k > n THEN 0
    ELSE IF k = 0 \/ k = n THEN 1
    ELSE comb(n - 1, k - 1) + comb(n - 1, k)

NaN == [nan |-> TRUE, num |-> 0, den |-> 1]

\* scipy.stats.binom.pmf(k, n, p) for integers 0 <= k <= n: NaN when p is
\* outside [0, 1], else C(n, k) * p^k * (1 - p)^(n - k)
binom_pmf(k, n, p) ==
    IF p < 0 \/ p > Tenths THEN NaN
    ELSE [nan |-> FALSE,
          num |-> comb(n, k) * Pow(p, k) * Pow(Tenths - p, n - k),
          den |-> Pow(Tenths, n)]

RECURSIVE isotope_loop(_, _, _, _, _)
\* the for loop of lines 57-59 from k_isotopes on: each turn stores one
\* probability in the dictionary and prints the dictionary
isotope_loop(k_isotopes, natoms, abundance, n_isotopes_probabilities, stdout) ==
    IF k_isotopes > natoms
    THEN [n_isotopes_probabilities |-> n_isotopes_probabilities, stdout |-> stdout]
    ELSE LET d == (k_isotopes :> binom_pmf(k_isotopes, natoms, abundance))
                      @@ n_isotopes_probabilities
         IN  isotope_loop(k_isotopes + 1, natoms, abundance, d, Append(stdout, d))

\* the body ends after the loop without a return statement: the caller gets
\* None, the dictionary is only printed
get_isotope_distribution_from_natoms(natoms, isotope, abundance) ==
    IF natoms = None \/ abundance = None THEN Raise("ValueError")
    ELSE [kind |-> "return", value |-> None, exc |-> "",
          stdout |-> isotope_loop(0, Val(natoms), Val(abundance), << >>, << >>).stdout]

(* inputs of get_isotope_distribution_from_natoms *)

Abundances == {-1, 0, 1, 3, 5, 9, 10, 15}

IsotopeArgs ==
    [natoms : {None} \cup { Some(n) : n \in (-1)..MaxAtoms },
     isotope : {None, Some("C13")},
     abundance : {None} \cup { Some(a) : a \in Abundances }]

InitIsotope ==
    /\ fn = "get_isotope_distribution_from_natoms"
    /\ args \in IsotopeArgs
    /\ pc = "call"
    /\ ret = NoRet

Call_get_isotope_distribution_from_natoms ==
    /\ fn = "get_isotope_distribution_from_natoms"
    /\ pc = "call"
    /\ ret' = get_isotope_distribution_from_natoms(args.natoms, args.isotope,
                                                   args.abundance)
    /\ pc' = "done"
    /\ UNCHANGED << fn, args >>

NextIsotope == Call_get_isotope_distribution_from_natoms

SpecIsotope == InitIsotope /\ [][NextIsotope]_vars

(* ------------ claims on get_isotope_distribution_from_natoms ---------- *)

IsotopeCalled == fn = "get_isotope_distribution_from_natoms" /\ Done

RECURSIVE Factorial(_)
Factorial(n) == IF n <= 0 THEN 1 ELSE n * Factorial(n - 1)

\* C(n, k) * p^k * (1 - p)^(n - k), as a count of Tenths ^ -n
BinomialNum(n, k, p) ==
    (Factorial(n) \div (Factorial(k) * Factorial(n - k)))
        * Pow(p, k) * Pow(Tenths - p, n - k)

\* C13: for n >= 0 atoms and an abundance p in [0, 1] the call returns a
\* mapping with the keys 0..n, the value at k being the binomial probability
\* C(n, k) * p^k * (1 - p)^(n - k); the values sum to 1.
C13_ReturnsBinomialMapping ==
    (/\ IsotopeCalled
     /\ args.natoms # None
     /\ args.abundance # None
     /\ Val(args.natoms) >= 0
     /\ Val(args.abundance) >= 0
     /\ Val(args.abundance) <= Tenths) =>
        /\ ret.kind = "return"
        /\ ret.value # None
        /\ DOMAIN ret.value = 0..Val(args.natoms)
        /\ \A k \in 0..Val(args.natoms) :
               /\ ~ret.value[k].nan
               /\ ret.value[k].den = Pow(Tenths, Val(args.natoms))
               /\ ret.value[k].num =
                      BinomialNum(Val(args.natoms), k, Val(args.abundance))
        /\ SumOver(0..Val(args.natoms),
                   [k \in 0..Val(args.natoms) |-> ret.value[k].num])
               = Pow(Tenths, Val(args.natoms))

\* C14: the call raises ValueError, and gives no distribution, when the atom
\* count or the abundance is unset, when the atom count is negative, or when
\* the abundance is outside [0, 1].
C14_InvalidArgumentRaises ==
    (/\ IsotopeCalled
     /\ \/ args.natoms = None
        \/ args.abundance = None
        \/ Val(args.natoms) < 0
        \/ Val(args.abundance) < 0
        \/ Val(args.abundance) > Tenths) =>
        ret = Raise("ValueError")

====
